---- MODULE Spec2Model ----
(***************************************************************************)
(* RC4 (src/rc4.rs): the keystream generator RC4RawStream (key schedule in *)
(* new, pseudo-random generation in read) and the streaming adapter        *)
(* RC4DataStream, which XORs what its underlying Reader delivers with the  *)
(* keystream.                                                              *)
(*                                                                         *)
(* A behaviour is one run of one of the shapes the tests have:             *)
(*  test = "raw" : two RC4RawStream values built independently from one    *)
(*            key and read in any interleaving (test_rc4_raw);             *)
(*  test = "data": a Reader over a byte string, wrapped by an              *)
(*            RC4DataStream (estream), wrapped by a second RC4DataStream   *)
(*            (dstream) with the same key (test_rc4_data_decrypt); the     *)
(*            Reader may deliver short counts, zero bytes, or an error;    *)
(*  test = "keys": two RC4RawStream values, the second built from a        *)
(*            second key (a repetition of the first, a long key, ...).     *)
(* In all, fresh is one more RC4RawStream built from the key and never     *)
(* read: the properties compare the streams in use with it.                *)
(*                                                                         *)
(* Spec has the shapes "raw" and "data"; SpecBurst has them with one raw   *)
(* stream whose first read may fill a large buffer, so that the cursor i   *)
(* wraps; SpecKeys has the shape "keys".                                   *)
(***************************************************************************)
EXTENDS Integers, Sequences, FiniteSets, TLC

\* ------------------------------------------------------------------ sizes

\* [u8, ..256u]: the number of entries of the state table.
N == 256

\* u8: the modulus of every addition on i, j and table entries.
U8 == 256

\* Bounds of the model.
MaxBytes == 10
MaxBuf == 3
MaxReq == 2
MaxDataLen == 2

\* How many times a key is at most repeated to make a second key, the
\* number of times of one long repetition, and by how many bytes a long
\* key at most exceeds the 256 the key schedule can index.
MaxRepeat == 3
ManyRepeat == 100
MaxExtra == 2

\* The length of the one large buffer a raw stream may be read into first:
\* with the MaxBytes that follow, the cursor i passes 255.
Burst == 253

Byte == 0..(U8 - 1)

\* ------------------------------------------------------------- arithmetic

\* u8 + u8 (the additions of lines 25, 38, 41, 46 wrap at 256).
AddU8(a, b) == (a + b) % U8

RECURSIVE XorBits(_, _, _)
XorBits(a, b, bits) ==
  IF bits = 0 THEN 0
  ELSE ((a + b) % 2) + 2 * XorBits(a \div 2, b \div 2, bits - 1)

\* A violation of self-inverseness: masking by addition.
BitXorAsAdd(a, b) == (a + b) % U8

\* u8 ^ u8 (line 74).
BitXor(a, b) == XorBits(a, b, 8)

\* A swap that forgets the second store.
SwapAsOverwrite(st, a, b) == [st EXCEPT ![a] = st[b]]

\* state.swap(a, b) (lines 26, 44).
Swap(st, a, b) == [st EXCEPT ![a] = st[b], ![b] = st[a]]

\* ---------------------------------------------------------- RC4RawStream

\* The first loop of new: state[i] = i.
IdentityState == [p \in 0..(N - 1) |-> p]

\* A key-schedule iteration that leaves the key byte out of the sum.
KsaStepNoKey(st, j, i, key) ==
  LET j1 == AddU8(j, st[i])
  IN  [state |-> Swap(st, i, j1), j |-> j1]

\* A key-schedule iteration that does not wrap around the key: past its
\* end it keeps taking the last key byte.
KsaStepNoWrapAround(st, j, i, key) ==
  LET klen == Len(key)
      j1 == AddU8(j, AddU8(st[i], key[(IF i < klen THEN i ELSE klen - 1) + 1]))
  IN  [state |-> Swap(st, i, j1), j |-> j1]

\* A key-schedule iteration that counts the key bytes from the end.
KsaStepFromEnd(st, j, i, key) ==
  LET klen == Len(key)
      j1 == AddU8(j, AddU8(st[i], key[klen - (i % klen)]))
  IN  [state |-> Swap(st, i, j1), j |-> j1]

\* One iteration of the key-schedule loop (lines 25-26):
\* j += state[i] + key[i % klen]; state.swap(i, j).
KsaStep(st, j, i, key) ==
  LET klen == Len(key)
      j1 == AddU8(j, AddU8(st[i], key[(i % klen) + 1]))
  IN  [state |-> Swap(st, i, j1), j |-> j1]

RECURSIVE KsaLoop(_, _, _, _)
\* for i in range(lo, hi) { ... } (lines 24-27) from acc = [state, j]: the
\* iterations lo, lo + 1, ..., hi - 1 in this order. The range is run as
\* its lower half and then its upper half, and the test on half.j (a u8)
\* has the lower half evaluated first: this only keeps the evaluation
\* shallow.
KsaLoop(acc, lo, hi, key) ==
  IF hi <= lo THEN acc
  ELSE IF hi = lo + 1 THEN KsaStep(acc.state, acc.j, lo, key)
  ELSE LET half == KsaLoop(acc, lo, (lo + hi) \div 2, key)
       IN  IF half.j \in Byte
           THEN KsaLoop(half, (lo + hi) \div 2, hi, key)
           ELSE half

\* The value standing for "no RC4RawStream exists".
NoRaw == [i |-> 0, j |-> 0, state |-> <<>>]

\* A construction that skips the key bytes of an empty key and goes on.
RawNewEmptyKeyAccepted(key) ==
  [ok |-> TRUE, failure |-> "",
   raw |-> [i |-> 0, j |-> 0,
            state |-> IF Len(key) = 0 THEN IdentityState
                      ELSE KsaLoop([state |-> IdentityState, j |-> 0],
                                   0, N, key).state]]

\* A construction that stores the schedule's last j as the cursor j.
RawNewKeepsCursor(key) ==
  IF Len(key) = 0
  THEN [ok |-> FALSE, failure |-> "remainder with a divisor of zero",
        raw |-> NoRaw]
  ELSE [ok |-> TRUE, failure |-> "",
        raw |-> [i |-> 0,
                 j |-> KsaLoop([state |-> IdentityState, j |-> 0],
                               0, N, key).j,
                 state |-> KsaLoop([state |-> IdentityState, j |-> 0],
                                  0, N, key).state]]

\* RC4RawStream::new(key). With klen = 0 the first evaluation of i % klen
\* is a remainder by zero: the task fails and no value is returned.
RC4RawStream_new(key) ==
  IF Len(key) = 0
  THEN [ok |-> FALSE, failure |-> "remainder with a divisor of zero",
        raw |-> NoRaw]
  ELSE [ok |-> TRUE, failure |-> "",
        raw |-> [i |-> 0, j |-> 0,
                 state |-> KsaLoop([state |-> IdentityState, j |-> 0],
                                  0, N, key).state]]

\* A step that assigns state[i] to j where the code adds it.
PrgaStepNoAccumulate(self) ==
  LET i == AddU8(self.i, 1)
      j == self.state[i]
      st == Swap(self.state, i, j)
      nidx == AddU8(st[i], st[j])
  IN  [self |-> [i |-> i, j |-> j, state |-> st], byte |-> st[nidx]]

\* The body of read's loop (lines 38-47).
PrgaStep(self) ==
  LET i == AddU8(self.i, 1)
      j == AddU8(self.j, self.state[i])
      st == Swap(self.state, i, j)
      nidx == AddU8(st[i], st[j])
  IN  [self |-> [i |-> i, j |-> j, state |-> st], byte |-> st[nidx]]

\* One iteration of read's loop on acc = [self, buf]: the step, and
\* buf[b] = self.state[nidx] (line 47); b counts from 1 here.
RawReadStep(acc, b, r) ==
  [self |-> r.self, buf |-> [acc.buf EXCEPT ![b] = r.byte]]

RECURSIVE RawReadLoop(_, _, _)
\* for b in range(0, blen) { ...; buf[b] = ... } (lines 37-48) from
\* acc = [self, buf]: the iterations lo, ..., hi - 1 in this order, run as
\* the lower half of the range and then the upper half (as in KsaLoop, the
\* test on half.self.i, a u8, only has the lower half evaluated first).
RawReadLoop(acc, lo, hi) ==
  IF hi <= lo THEN acc
  ELSE IF hi = lo + 1 THEN RawReadStep(acc, lo, PrgaStep(acc.self))
  ELSE LET half == RawReadLoop(acc, lo, (lo + hi) \div 2)
       IN  IF half.self.i \in Byte
           THEN RawReadLoop(half, (lo + hi) \div 2, hi)
           ELSE half

\* A read of a keystream that ends: no byte is written past the fourth, and
\* the read that would write one returns EndOfFile.
RawReadFiniteKeystream(self, buf) ==
  IF self.i + Len(buf) > 4
  THEN [self |-> self, buf |-> buf,
        ret |-> [kind |-> "Err", n |-> 0, err |-> "EndOfFile"]]
  ELSE LET r == RawReadLoop([self |-> self, buf |-> buf], 1, Len(buf) + 1)
       IN  [self |-> r.self, buf |-> r.buf,
            ret |-> [kind |-> "Ok", n |-> Len(buf), err |-> ""]]

\* A read whose cursor i is a local that starts at 0 in every call.
RawReadLocalCursor(self, buf) ==
  LET r == RawReadLoop([self |-> [self EXCEPT !.i = 0], buf |-> buf],
                       1, Len(buf) + 1)
  IN  [self |-> r.self, buf |-> r.buf,
       ret |-> [kind |-> "Ok", n |-> Len(buf), err |-> ""]]

\* <RC4RawStream as Reader>::read(buf): Ok(blen) (lines 34-51).
RC4RawStream_read(self, buf) ==
  LET r == RawReadLoop([self |-> self, buf |-> buf], 1, Len(buf) + 1)
  IN  [self |-> r.self, buf |-> r.buf,
       ret |-> [kind |-> "Ok", n |-> Len(buf), err |-> ""]]

\* Ok(1) => return Ok(buf[0]) in Reader::read_byte, r being the read's result.
ReadByteResult(r) == [self |-> r.self, byte |-> r.buf[1], ret |-> r.ret]

\* Reader::read_byte on an RC4RawStream: one read into a one-byte buffer.
RC4RawStream_read_byte(self) == ReadByteResult(RC4RawStream_read(self, <<0>>))

\* --------------------------------------------------------- RC4DataStream

\* The value standing for "no result": nothing was called.
NoRet == [kind |-> "none", n |-> 0, err |-> ""]
NoRes == [ret |-> NoRet, buf |-> <<>>, calls |-> 0]

\* RC4DataStream::new(key, data) (lines 60-63): the raw stream is built
\* first; when that fails no RC4DataStream is returned.
RC4DataStream_new(key) == RC4RawStream_new(key)

RECURSIVE XorLoop(_, _, _, _)
\* for b in range(0, num) { buf[b] ^= self.raw.read_byte().unwrap(); }
\* (lines 73-75); b counts from 1 here. unwrap fails the task when
\* read_byte did not return Ok.
XorLoop(raw, buf, b, num) ==
  IF b > num THEN [raw |-> raw, buf |-> buf, panic |-> FALSE]
  ELSE LET r == RC4RawStream_read_byte(raw)
       IN  IF r.ret.kind = "Ok"
           THEN XorLoop(r.self, [buf EXCEPT ![b] = BitXor(buf[b], r.byte)],
                        b + 1, num)
           ELSE [raw |-> r.self, buf |-> buf, panic |-> TRUE]

\* Ok(num) (line 77) with the masked buffer x = [raw, buf, panic]; nothing
\* is returned when the unwrap failed.
ReadOk(x, first) ==
  [raw |-> x.raw,
   ret |-> IF x.panic THEN [kind |-> "Panic", n |-> 0, err |-> ""]
           ELSE first.ret,
   buf |-> x.buf, calls |-> 1]

\* Err(e) => return Err(e) (line 69).
ReadErr(raw, first) ==
  [raw |-> raw, ret |-> first.ret, buf |-> first.buf, calls |-> 1]

\* A read that masks the whole buffer, not the num bytes delivered.
DataReadWholeBuffer(raw, rd) ==
  IF rd[1].ret.kind = "Err"
  THEN ReadErr(raw, rd[1])
  ELSE ReadOk(XorLoop(raw, rd[1].buf, 1, Len(rd[1].buf)), rd[1])

\* A read that feeds the first byte the source delivered into the cursor j
\* of the generator.
DataReadFeedback(raw, rd) ==
  IF rd[1].ret.kind = "Err"
  THEN ReadErr(raw, rd[1])
  ELSE IF rd[1].ret.n = 0
  THEN ReadOk(XorLoop(raw, rd[1].buf, 1, rd[1].ret.n), rd[1])
  ELSE ReadOk([XorLoop(raw, rd[1].buf, 1, rd[1].ret.n)
                 EXCEPT !.raw.j = AddU8(@, rd[1].buf[1])], rd[1])

\* A read that draws a keystream byte before it asks the source.
DataReadPrefetch(raw, rd) ==
  IF rd[1].ret.kind = "Err"
  THEN ReadErr(RC4RawStream_read_byte(raw).self, rd[1])
  ELSE ReadOk(XorLoop(raw, rd[1].buf, 1, rd[1].ret.n), rd[1])

\* A read that calls the source again when it fails, and reports a last
\* failure as a generic error.
DataReadRetry(raw, rd) ==
  IF rd[1].ret.kind # "Err"
  THEN ReadOk(XorLoop(raw, rd[1].buf, 1, rd[1].ret.n), rd[1])
  ELSE IF rd[2].ret.kind # "Err"
  THEN [ReadOk(XorLoop(raw, rd[2].buf, 1, rd[2].ret.n), rd[2])
          EXCEPT !.calls = 2]
  ELSE [raw |-> raw, ret |-> [rd[2].ret EXCEPT !.err = "OtherIoError"],
        buf |-> rd[2].buf, calls |-> 2]

\* <RC4DataStream as Reader>::read(buf) (lines 67-78). rd lists what
\* self.data.read(buf) answers to successive calls, each [ret, buf]; the
\* code calls it once (line 68), so only rd[1] is used and calls = 1.
RC4DataStream_read(raw, rd) ==
  IF rd[1].ret.kind = "Err"
  THEN ReadErr(raw, rd[1])
  ELSE ReadOk(XorLoop(raw, rd[1].buf, 1, rd[1].ret.n), rd[1])

\* ------------------------------------------------------------ the Reader

\* Errors the underlying Reader may return.
IoErrors == {"EndOfFile", "TimedOut"}

Min(a, b) == IF a < b THEN a ELSE b

\* What one call of the underlying Reader may answer when asked for len
\* bytes with remaining bytes left: Ok(n) with 0 <= n <= len, or an error.
Outcomes(len, remaining) ==
  {[kind |-> "Ok", n |-> k, err |-> ""] : k \in 0..Min(len, remaining)}
    \cup {[kind |-> "Err", n |-> 0, err |-> e] : e \in IoErrors}

\* The answer Ok(0).
NoMore == [kind |-> "Ok", n |-> 0, err |-> ""]

\* self.data.read(buf) on the innermost Reader (line 68), answering o: the
\* first o.n bytes of buf are overwritten with the next bytes of content
\* (o.n = 0 for an error), the others are left as they were.
SourceRead(content, p, buf, o) ==
  [ret |-> o,
   buf |-> SubSeq(content, p + 1, p + o.n) \o SubSeq(buf, o.n + 1, Len(buf)),
   pos |-> IF o.kind = "Ok" THEN p + o.n ELSE p,
   calls |-> 0]

\* ------------------------------------------------------------ the inputs

\* "Key", "Wiki", "Secret" as ASCII (test_raw, test_data).
KeyKey == <<75, 101, 121>>
KeyWiki == <<87, 105, 107, 105>>
KeySecret == <<83, 101, 99, 114, 101, 116>>

NonEmptyKeys == {KeyKey, KeyWiki, KeySecret, <<0>>, <<255, 255>>}
Keys == NonEmptyKeys \cup {<<>>}

\* "Plaintext", "pedia", "Attack at dawn" as ASCII (test_data).
DataPlaintext == <<80, 108, 97, 105, 110, 116, 101, 120, 116>>
DataPedia == <<112, 101, 100, 105, 97>>
DataAttack == <<65, 116, 116, 97, 99, 107, 32, 97, 116, 32, 100, 97, 119, 110>>

DataAlphabet == {0, 255}
ShortData == UNION {[1..n -> DataAlphabet] : n \in 0..MaxDataLen}
DataSet == {DataPlaintext, DataPedia, DataAttack} \cup ShortData

\* What the caller's buffer holds before a read.
FillBytes == {0, 255}

Insts == {1, 2}

VARIABLES
  test,    \* "raw", "data" or "keys": which shape this run has
  key,     \* the key every construction of the run is given
  key2,    \* keys: the key the second raw stream is given instead
  fresh,   \* an RC4RawStream built from key that is never read
  gstat,   \* raw: per instance "none" (not constructed), "ok", "failed"
  gfail,   \* raw: per instance the failure message of a failed new
  gen,     \* raw: per instance the RC4RawStream {i, j, state}
  ks,      \* raw: per instance every byte its reads have written, in order
  big,     \* raw: per instance the bytes its large first read wrote (or 0)
  rlast,   \* raw: the last read: instance, buffer afterwards, return value
  dstat,   \* data: "none", "estream" (estream built), "ok", "failed"
  dfail,   \* data: the failure message of a failed RC4DataStream::new
  data,    \* data: the bytes the underlying Reader holds
  pos,     \* data: how many of them the Reader has delivered
  eraw,    \* data: estream.raw
  draw,    \* data: dstream.raw
  encOut,  \* data: every byte estream.read has returned, in order
  decOut,  \* data: every byte dstream.read has returned, in order
  sres,    \* data: last result of the Reader's read: [ret, buf, ...]
  eres,    \* data: last result of estream.read: [ret, buf, calls]
  dres,    \* data: last result of dstream.read: [ret, buf, calls]
  req      \* data: the buffer the caller passed to the last dstream.read

rawVars == <<gstat, gfail, gen, ks, big, rlast>>
dataVars == <<dstat, dfail, pos, eraw, draw, encOut, decOut,
              sres, eres, dres, req>>
fixed == <<test, key, key2, data, fresh>>
vars == <<fixed, rawVars, dataVars>>

Zeros(n) == [p \in 1..n |-> 0]

\* Nothing is constructed, nothing was read.
NothingBuilt ==
  /\ gstat = [x \in Insts |-> "none"]
  /\ gfail = [x \in Insts |-> ""]
  /\ gen = [x \in Insts |-> NoRaw]
  /\ ks = [x \in Insts |-> <<>>]
  /\ big = [x \in Insts |-> 0]
  /\ rlast = [inst |-> 0, buf |-> <<>>, ret |-> NoRet]
  /\ dstat = "none"
  /\ dfail = ""
  /\ pos = 0
  /\ eraw = NoRaw
  /\ draw = NoRaw
  /\ encOut = <<>>
  /\ decOut = <<>>
  /\ sres = NoRes
  /\ eres = NoRes
  /\ dres = NoRes
  /\ req = <<>>

Init ==
  /\ test \in {"raw", "data"}
  /\ key \in Keys
  /\ key2 = key
  /\ fresh = RC4RawStream_new(key).raw
  /\ data \in (IF test = "data" THEN DataSet ELSE {<<>>})
  /\ NothingBuilt

\* key repeated m times.
Repeat(k, m) == [p \in 1..(m * Len(k)) |-> k[((p - 1) % Len(k)) + 1]]

\* A key of 256 + extra bytes: 255 bytes of a fixed pattern, then at, then
\* extra bytes tail.
LongKey(at, extra, tail) ==
  [p \in 1..(256 + extra) |->
     IF p < 256 THEN (7 * p + 3) % 256 ELSE IF p = 256 THEN at ELSE tail]

LongKeys ==
  {LongKey(at, extra, tail) :
     at \in {0, 255}, extra \in 0..MaxExtra, tail \in {0, 255}}

\* The two keys of a "keys" run: a key and a repetition of it, two long
\* keys, or two of the test keys.
KeyPairs ==
  {<<k, Repeat(k, m)>> :
     k \in NonEmptyKeys, m \in (1..MaxRepeat) \cup {ManyRepeat}}
    \cup {<<LongKey(0, 1, 0), l>> : l \in LongKeys}
    \cup {<<KeyKey, KeyWiki>>}

\* Two raw streams, the first built from key and the second from key2.
InitKeys ==
  /\ test = "keys"
  /\ \E kp \in KeyPairs : key = kp[1] /\ key2 = kp[2]
  /\ fresh = RC4RawStream_new(key).raw
  /\ data = <<>>
  /\ NothingBuilt

\* -------------------------------------------------------- the raw stream

\* let stream = RC4RawStream::new(key) (test_rc4_raw), for instance inst.
RawNew(inst) ==
  /\ test = "raw"
  /\ gstat[inst] = "none"
  /\ LET r == RC4RawStream_new(key)
     IN  /\ gstat' = [gstat EXCEPT ![inst] = IF r.ok THEN "ok" ELSE "failed"]
         /\ gfail' = [gfail EXCEPT ![inst] = r.failure]
         /\ gen' = [gen EXCEPT ![inst] = r.raw]
  /\ UNCHANGED <<fixed, ks, big, rlast, dataVars>>

\* let stream = RC4RawStream::new(k) in a "keys" run: the first stream is
\* given key, the second key2.
KeysNew(inst) ==
  /\ test = "keys"
  /\ gstat[inst] = "none"
  /\ LET r == RC4RawStream_new(IF inst = 1 THEN key ELSE key2)
     IN  /\ gstat' = [gstat EXCEPT ![inst] = IF r.ok THEN "ok" ELSE "failed"]
         /\ gfail' = [gfail EXCEPT ![inst] = r.failure]
         /\ gen' = [gen EXCEPT ![inst] = r.raw]
  /\ UNCHANGED <<fixed, ks, big, rlast, dataVars>>

\* A read whose cursor j is one cell shared by all instances.
RawReadSharedCursor(inst, blen) ==
  /\ gstat[inst] = "ok"
  /\ gstat[1] = "ok"
  /\ IF blen = Burst THEN ks[inst] = <<>>
     ELSE Len(ks[inst]) + blen <= MaxBytes + big[inst]
  /\ big' = [big EXCEPT ![inst] = IF blen = Burst THEN Burst ELSE @]
  /\ LET r == RC4RawStream_read([gen[inst] EXCEPT !.j = gen[1].j], Zeros(blen))
     IN  /\ gen' = [x \in Insts |->
                      IF x = inst THEN r.self
                      ELSE [gen[x] EXCEPT !.j = r.self.j]]
         /\ ks' = [ks EXCEPT ![inst] = @ \o r.buf]
         /\ rlast' = [inst |-> inst, buf |-> r.buf, ret |-> r.ret]
  /\ UNCHANGED <<fixed, gstat, gfail, dataVars>>

\* stream.read(buf) on instance inst with a buffer of blen bytes: a first
\* read may take Burst bytes, the others take MaxBytes between them.
RawRead(inst, blen) ==
  /\ gstat[inst] = "ok"
  /\ IF blen = Burst THEN ks[inst] = <<>>
     ELSE Len(ks[inst]) + blen <= MaxBytes + big[inst]
  /\ big' = [big EXCEPT ![inst] = IF blen = Burst THEN Burst ELSE @]
  /\ LET r == RC4RawStream_read(gen[inst], Zeros(blen))
     IN  /\ gen' = [gen EXCEPT ![inst] = r.self]
         /\ ks' = [ks EXCEPT ![inst] = @ \o r.buf]
         /\ rlast' = [inst |-> inst, buf |-> r.buf, ret |-> r.ret]
  /\ UNCHANGED <<fixed, gstat, gfail, dataVars>>

\* ------------------------------------------------------ the data streams

\* let estream = RC4DataStream::new(key, data) (line 122).
NewEstream ==
  /\ test = "data"
  /\ dstat = "none"
  /\ LET r == RC4DataStream_new(key)
     IN  /\ dstat' = IF r.ok THEN "estream" ELSE "failed"
         /\ dfail' = r.failure
         /\ eraw' = r.raw
  /\ UNCHANGED <<fixed, rawVars, pos, draw, encOut, decOut,
                 sres, eres, dres, req>>

\* let dstream = RC4DataStream::new(key, estream) (line 123).
NewDstream ==
  /\ dstat = "estream"
  /\ LET r == RC4DataStream_new(key)
     IN  /\ dstat' = IF r.ok THEN "ok" ELSE "failed"
         /\ dfail' = r.failure
         /\ draw' = r.raw
  /\ UNCHANGED <<fixed, rawVars, pos, eraw, encOut, decOut,
                 sres, eres, dres, req>>

Delivered(res) ==
  IF res.ret.kind = "Ok" THEN SubSeq(res.buf, 1, res.ret.n) ELSE <<>>

\* What the Reader answers to a first call (o1) and to a second (o2).
SourceAgain(s1, o2) == <<s1, SourceRead(data, s1.pos, s1.buf, o2)>>
SourceCalls(buf, o1, o2) == SourceAgain(SourceRead(data, pos, buf, o1), o2)

\* What estream.read answers to a first call and to a second, the Reader
\* answering rdS.
EstreamAgain(e1, rdS) ==
  <<e1, RC4DataStream_read(e1.raw, <<rdS[2], rdS[2]>>)>>
EstreamCalls(rdS) == EstreamAgain(RC4DataStream_read(eraw, rdS), rdS)

\* The state after dstream.read returned d, estream.read having answered
\* rdE and the Reader rdS.
DataReadDone(buf, rdS, rdE, d) ==
  /\ req' = buf
  /\ sres' = rdS[1]
  /\ eres' = rdE[1]
  /\ dres' = d
  /\ pos' = rdS[IF rdE[1].calls = 1 /\ d.calls = 1 THEN 1 ELSE 2].pos
  /\ eraw' = rdE[d.calls].raw
  /\ draw' = d.raw
  /\ encOut' = encOut \o Delivered(rdE[1])
  /\ decOut' = decOut \o Delivered(d)

DataReadOuter(buf, rdS, rdE) ==
  DataReadDone(buf, rdS, rdE, RC4DataStream_read(draw, rdE))

DataReadInner(buf, rdS) == DataReadOuter(buf, rdS, EstreamCalls(rdS))

\* dstream.read(buf) with buf of len bytes, each holding fill: dstream
\* reads from estream, estream from the Reader (line 68 in each). The
\* Reader answers o1 to the first call made on it and would answer o2 to a
\* second.
DataRead(len, fill, o1, o2) ==
  /\ dstat = "ok"
  /\ DataReadInner([b \in 1..len |-> fill],
                   SourceCalls([b \in 1..len |-> fill], o1, o2))
  /\ UNCHANGED <<fixed, rawVars, dstat, dfail>>

\* dstream.read(buf) for any buffer and any answers of the Reader.
AnyDataRead ==
  \E len \in 0..MaxReq, fill \in FillBytes :
    \E o1 \in Outcomes(len, Len(data) - pos) :
      \E o2 \in (IF o1.kind = "Err"
                 THEN Outcomes(len, Len(data) - pos) ELSE {NoMore}) :
        DataRead(len, fill, o1, o2)

Next ==
  \/ \E inst \in Insts : RawNew(inst)
  \/ \E inst \in Insts, blen \in 0..MaxBuf : RawRead(inst, blen)
  \/ NewEstream
  \/ NewDstream
  \/ AnyDataRead

Spec == Init /\ [][Next]_vars

\* The same runs with one raw stream, whose first read may be the large one.
NextBurst ==
  \/ RawNew(1)
  \/ \E blen \in (0..MaxBuf) \cup {Burst} : RawRead(1, blen)
  \/ NewEstream
  \/ NewDstream
  \/ AnyDataRead

SpecBurst == Init /\ [][NextBurst]_vars

\* The runs with two keys.
NextKeys ==
  \/ \E inst \in Insts : KeysNew(inst)
  \/ \E inst \in Insts, blen \in 0..MaxBuf : RawRead(inst, blen)

SpecKeys == InitKeys /\ [][NextKeys]_vars

\* ---------------------------------------------------- reference values

\* The first n bytes a generator fresh from new(key) writes in one read.
Keystream(n) == RC4RawStream_read(fresh, Zeros(n)).buf

\* The generator fresh from new(key) after one read of n bytes.
AfterBytes(n) == RC4RawStream_read(fresh, Zeros(n)).self

\* What one RC4DataStream fresh from new(key) returns when its Reader
\* delivers all of data in a single read.
OneShot ==
  RC4DataStream_read(fresh,
    <<SourceRead(data, 0, Zeros(Len(data)),
                 [kind |-> "Ok", n |-> Len(data), err |-> ""]),
      SourceRead(data, Len(data), Zeros(Len(data)), NoMore)>>).buf

\* One iteration of the key schedule as the specification words it: a
\* single sum of naturals reduced mod 256, then the swap.
ScheduleStep(acc, p, k) ==
  LET j1 == (acc.j + acc.state[p] + k[(p % Len(k)) + 1]) % 256
  IN  [state |-> [q \in 0..255 |->
                    IF q = p THEN acc.state[j1]
                    ELSE IF q = j1 THEN acc.state[p]
                    ELSE acc.state[q]],
       j |-> j1]

RECURSIVE ScheduleFrom(_, _, _, _)
\* The iterations p = lo, ..., hi - 1 of that schedule, in order, from acc
\* (lower half first, as in KsaLoop).
ScheduleFrom(acc, lo, hi, k) ==
  IF hi <= lo THEN acc
  ELSE IF hi = lo + 1 THEN ScheduleStep(acc, lo, k)
  ELSE LET half == ScheduleFrom(acc, lo, (lo + hi) \div 2, k)
       IN  IF half.j >= 0
           THEN ScheduleFrom(half, (lo + hi) \div 2, hi, k)
           ELSE half

\* The table and transient cursor the specification's key schedule ends
\* with for key k: from the identity permutation and j = 0, p = 0..255.
Scheduled(k) ==
  ScheduleFrom([state |-> [q \in 0..255 |-> q], j |-> 0], 0, 256, k)

\* acc = [self, bytes] after one more read_byte, r being its result.
OneMoreByte(acc, r) == [self |-> r.self, bytes |-> Append(acc.bytes, r.byte)]

RECURSIVE ByteByByte(_, _)
\* acc after n consecutive read_byte calls (the first half of them, then
\* the others).
ByteByByte(acc, n) ==
  IF n <= 0 THEN acc
  ELSE IF n = 1 THEN OneMoreByte(acc, RC4RawStream_read_byte(acc.self))
  ELSE LET half == ByteByByte(acc, n \div 2)
       IN  IF half.self.i \in Byte
           THEN ByteByByte(half, n - (n \div 2))
           ELSE half

AgreesWith(out, vec) ==
  \A p \in 1..Min(Len(out), Len(vec)) : out[p] = vec[p]

IsPrefix(a, b) == Len(a) <= Len(b) /\ a = SubSeq(b, 1, Len(a))

IsPermutation(st) ==
  /\ DOMAIN st = 0..(N - 1)
  /\ {st[p] : p \in 0..(N - 1)} = 0..(N - 1)

\* EB9F7781B734CA72A719, 6044DB6D41B7, 04D46B053CA87B59 (test_raw).
VecKey == <<235, 159, 119, 129, 183, 52, 202, 114, 167, 25>>
VecWiki == <<96, 68, 219, 109, 65, 183>>
VecSecret == <<4, 212, 107, 5, 60, 168, 123, 89>>

\* BBF316E8D940AF0AD3, 1021BF0420, 45A01F645FC35B383552544B9BF5 (test_data).
CtKey == <<187, 243, 22, 232, 217, 64, 175, 10, 211>>
CtWiki == <<16, 33, 191, 4, 32>>
CtSecret == <<69, 160, 31, 100, 95, 195, 91, 56, 53, 82, 84, 75, 155, 245>>

\* ------------------------------------------------------------ the claims

\* C1: a generator freshly built from "Key", "Wiki" or "Secret" writes the
\* reference keystream: every byte it has written so far, however the reads
\* were split, is the byte of the test vector at that position.
C1_KnownKeystream ==
  \A inst \in Insts :
    gstat[inst] = "ok" =>
      /\ key = KeyKey => AgreesWith(ks[inst], VecKey)
      /\ key = KeyWiki => AgreesWith(ks[inst], VecWiki)
      /\ key = KeySecret => AgreesWith(ks[inst], VecSecret)

C1_Witness == key = KeyKey /\ gstat[1] = "ok" /\ ks[1] = VecKey

\* C2: an adapter over "Plaintext" / "pedia" / "Attack at dawn" with key
\* "Key" / "Wiki" / "Secret" returns the reference ciphertext: what it has
\* returned so far agrees with it, and is all of it once the source is read
\* to its end.
C2_KnownCiphertext ==
  dstat = "ok" =>
    /\ (key = KeyKey /\ data = DataPlaintext) =>
         (AgreesWith(encOut, CtKey) /\ (pos = Len(data) => encOut = CtKey))
    /\ (key = KeyWiki /\ data = DataPedia) =>
         (AgreesWith(encOut, CtWiki) /\ (pos = Len(data) => encOut = CtWiki))
    /\ (key = KeySecret /\ data = DataAttack) =>
         (AgreesWith(encOut, CtSecret)
            /\ (pos = Len(data) => encOut = CtSecret))

C2_Witness ==
  key = KeySecret /\ data = DataAttack /\ dstat = "ok" /\ pos = Len(data)
    /\ encOut = CtSecret

\* C3: round trip: what has been read through dstream (an adapter over an
\* adapter over the source, same key) is exactly the source bytes delivered
\* so far, however the reads were split.
C3_RoundTrip ==
  dstat = "ok" => (Len(decOut) = pos /\ decOut = SubSeq(data, 1, pos))

C3_Witness ==
  dstat = "ok" /\ data = DataPlaintext /\ pos = Len(data) /\ decOut = data
    /\ encOut # data

\* C4: the state table of every constructed generator (the two raw streams,
\* and the raw stream of each adapter) is a permutation of 0..255, after
\* construction and after every read.
C4_Permutation ==
  /\ \A inst \in Insts : gstat[inst] = "ok" => IsPermutation(gen[inst].state)
  /\ dstat \in {"estream", "ok"} => IsPermutation(eraw.state)
  /\ dstat = "ok" => IsPermutation(draw.state)

C4_Witness ==
  gstat[1] = "ok" /\ Len(ks[1]) >= 5 /\ gen[1].state # fresh.state

\* C5: partial reads: what the adapter has returned over any sequence of
\* short reads is a prefix of what it returns when the source delivers all
\* its bytes in one read, and its generator has advanced by exactly the
\* number of bytes returned.
C5_PartialReads ==
  dstat = "ok" =>
    /\ Len(encOut) = pos
    /\ IsPrefix(encOut, OneShot)
    /\ pos = Len(data) => encOut = OneShot
    /\ eraw = AfterBytes(Len(encOut))

C5_Witness ==
  /\ dstat = "ok" /\ data = DataPlaintext /\ pos = Len(data)
  /\ sres.ret.kind = "Ok" /\ sres.ret.n = 1 /\ Len(req) = 2

\* C6: output byte p is source byte p XOR keystream byte p of a fresh
\* generator; a successful read returns the source's count n, masks the
\* first n bytes of the buffer and leaves the others as the source left
\* them.
C6_XorAtPosition ==
  dstat = "ok" =>
    LET kstr == Keystream(pos)
    IN  /\ Len(encOut) = pos
        /\ \A p \in 1..pos : encOut[p] = BitXor(data[p], kstr[p])
        /\ sres.ret.kind = "Ok" =>
              /\ eres.ret = sres.ret
              /\ Len(eres.buf) = Len(req)
              /\ \A b \in 1..Len(req) :
                   eres.buf[b] =
                     IF b <= sres.ret.n
                     THEN BitXor(sres.buf[b], kstr[pos - sres.ret.n + b])
                     ELSE sres.buf[b]

C6_Witness ==
  /\ dstat = "ok" /\ sres.ret.kind = "Ok" /\ sres.ret.n = 1 /\ Len(req) = 2
  /\ Len(encOut) >= 3 /\ req[2] = 255

C8_ErrorPropagation ==
  (dstat = "ok" /\ sres.ret.kind = "Err") =>
    /\ eres.ret = sres.ret
    /\ eres.calls = 1
    /\ dres.ret = sres.ret
    /\ dres.calls = 1

C8_Witness ==
  dstat = "ok" /\ sres.ret.kind = "Err" /\ sres.ret.err = "TimedOut"
    /\ encOut # <<>> /\ pos < Len(data) /\ Len(req) > 0

\* C9: a read in which the source succeeds with 0 bytes returns Ok(0),
\* returns no byte and leaves the generator as it was (in both adapters).
C9_EndOfStream ==
  [][(dstat = "ok" /\ sres'.ret.kind = "Ok" /\ sres'.ret.n = 0) =>
       /\ eres'.ret = [kind |-> "Ok", n |-> 0, err |-> ""]
       /\ dres'.ret = [kind |-> "Ok", n |-> 0, err |-> ""]
       /\ eraw' = eraw /\ draw' = draw
       /\ encOut' = encOut /\ decOut' = decOut
       /\ pos' = pos]_vars

C9_Witness ==
  /\ dstat = "ok" /\ sres.ret.kind = "Ok" /\ sres.ret.n = 0
  /\ eres.ret.kind = "Ok" /\ eres.ret.n = 0
  /\ Len(req) = 2 /\ encOut # <<>> /\ pos < Len(data)

\* C10: two generators built independently from the same key agree: the
\* bytes written by the one that has written fewer are the first bytes
\* written by the other, and when both have written k bytes their states
\* (table, i, j) are equal -- for k = 0, right after construction.
C10_Determinism ==
  (gstat[1] = "ok" /\ gstat[2] = "ok") =>
    /\ IsPrefix(ks[1], ks[2]) \/ IsPrefix(ks[2], ks[1])
    /\ Len(ks[1]) = Len(ks[2]) => gen[1] = gen[2]

C10_Witness ==
  /\ gstat[1] = "ok" /\ gstat[2] = "ok"
  /\ Len(ks[1]) = 4 /\ Len(ks[2]) = 4 /\ rlast.inst = 2 /\ Len(rlast.buf) = 1

\* C11: key schedule: for a non-empty key, a generator that has just been
\* constructed (by RC4RawStream::new or inside RC4DataStream::new) holds the
\* table of the specification's schedule -- identity, then for p = 0..255
\* j = (j + state[p] + key[p mod klen]) mod 256 and swap -- and its cursors
\* are i = 0 and j = 0, whatever value the schedule's own j ended with.
C11_KeySchedule ==
  key # <<>> =>
    /\ \A inst \in Insts :
         (gstat[inst] = "ok" /\ ks[inst] = <<>>) =>
            gen[inst] = [i |-> 0, j |-> 0, state |-> Scheduled(key).state]
    /\ dstat = "estream" =>
         eraw = [i |-> 0, j |-> 0, state |-> Scheduled(key).state]

C11_Witness ==
  /\ key = KeyWiki /\ gstat[2] = "ok" /\ ks[2] = <<>> /\ gstat[1] = "none"
  /\ gen[2].state # IdentityState /\ gen[2].j = 0
  /\ KsaLoop([state |-> IdentityState, j |-> 0], 0, N, key).j # 0

\* C12: byte-production step: a read of one byte takes the generator from
\* (i, j, state) to i' = (i + 1) mod 256, j' = (j + state[i']) mod 256 and
\* the table with entries i' and j' exchanged, and writes the entry of the
\* new table at (state'[i'] + state'[j']) mod 256; and at any time i is the
\* number of bytes written since construction, mod 256.
C12_ByteStep ==
  /\ [](\A inst \in Insts :
          gstat[inst] = "ok" => gen[inst].i = Len(ks[inst]) % 256)
  /\ [][\A inst \in Insts :
          (gstat[inst] = "ok" /\ Len(ks'[inst]) = Len(ks[inst]) + 1) =>
            LET g == gen[inst]
                i1 == (g.i + 1) % 256
                j1 == (g.j + g.state[i1]) % 256
                st == gen'[inst].state
            IN  /\ gen'[inst].i = i1
                /\ gen'[inst].j = j1
                /\ st[i1] = g.state[j1]
                /\ st[j1] = g.state[i1]
                /\ \A q \in (0..255) \ {i1, j1} : st[q] = g.state[q]
                /\ SubSeq(ks'[inst], 1, Len(ks[inst])) = ks[inst]
                /\ ks'[inst][Len(ks'[inst])] = st[(st[i1] + st[j1]) % 256]]_vars

C12_Witness ==
  /\ gstat[1] = "ok" /\ rlast.inst = 1 /\ Len(rlast.buf) = 1
  /\ Len(ks[1]) = 256 /\ gen[1].i = 0

\* C13: bulk production equals repeated single production: a read into a
\* buffer of n bytes, from whatever state the generator is in, writes the n
\* bytes and leaves the state (table, i, j) that n consecutive read_byte
\* calls do; so the bytes written and the state reached by any sequence of
\* reads are those of one read of the total length on a fresh generator,
\* for a raw stream and for the generator an adapter draws from byte by byte.
C13_BulkIsRepeatedSingle ==
  /\ [][\A inst \in Insts :
          gstat[inst] = "ok" =>
            LET s == ByteByByte([self |-> gen[inst], bytes |-> <<>>],
                                Len(ks'[inst]) - Len(ks[inst]))
            IN  /\ gen'[inst] = s.self
                /\ ks'[inst] = ks[inst] \o s.bytes]_vars
  /\ [](/\ \A inst \in Insts :
             gstat[inst] = "ok" =>
               /\ ks[inst] = Keystream(Len(ks[inst]))
               /\ gen[inst] = AfterBytes(Len(ks[inst]))
        /\ dstat = "ok" => eraw = AfterBytes(pos))

C13_Witness ==
  /\ gstat[1] = "ok" /\ big[1] = Burst /\ Len(ks[1]) = Burst + MaxBytes
  /\ rlast.inst = 1 /\ Len(rlast.buf) = 3

\* The cursors of g and every entry of its table are table indices, and so
\* are the three indices the next byte production uses.
IndicesInRange(g) ==
  /\ g.i \in 0..255 /\ g.j \in 0..255
  /\ DOMAIN g.state = 0..255
  /\ \A q \in 0..255 : g.state[q] \in 0..255
  /\ LET i1 == (g.i + 1) % 256
         j1 == (g.j + g.state[i1]) % 256
     IN  {i1, j1, (g.state[i1] + g.state[j1]) % 256} \subseteq DOMAIN g.state

\* C14: byte production is total: every read of a constructed generator
\* returned Ok(n) with n the length of the buffer it was given, the cursors
\* and table entries of every constructed generator are within 0..255, and
\* no read of an adapter ended in a failed unwrap: it returned what its
\* source returned.
C14_Totality ==
  /\ \A inst \in Insts :
       gstat[inst] = "ok" =>
         /\ IndicesInRange(gen[inst])
         /\ rlast.inst = inst =>
              rlast.ret = [kind |-> "Ok", n |-> Len(rlast.buf), err |-> ""]
  /\ dstat \in {"estream", "ok"} => IndicesInRange(eraw)
  /\ dstat = "ok" =>
       /\ IndicesInRange(draw)
       /\ eres.ret.kind # "Panic" /\ dres.ret.kind # "Panic"
       /\ eres.ret.kind # "none" => (eres.ret = sres.ret /\ dres.ret = sres.ret)

C14_Witness ==
  /\ gstat[1] = "ok" /\ rlast.inst = 1 /\ big[1] = Burst
  /\ Len(ks[1]) = 258 /\ gen[1].i = 2
  /\ rlast.ret = [kind |-> "Ok", n |-> 3, err |-> ""]

\* C15: state unchanged on source error: a read in which the source returns
\* an error leaves the generator (table, i, j) of the adapter, and of the
\* adapter around it, as it was, and returns no byte; so in a read in which
\* the source succeeds, after whatever failed and successful reads, byte b
\* of the buffer is masked with the keystream byte at position (bytes
\* returned so far) + b.
C15_ErrorLeavesState ==
  [][dstat = "ok" =>
       /\ sres'.ret.kind = "Err" =>
            /\ eraw' = eraw /\ draw' = draw
            /\ encOut' = encOut /\ decOut' = decOut
            /\ pos' = pos
       /\ sres'.ret.kind = "Ok" =>
            LET n == sres'.ret.n
                kstr == Keystream(Len(encOut) + n)
            IN  /\ Len(encOut') = Len(encOut) + n
                /\ Len(decOut') = Len(decOut) + n
                /\ \A b \in 1..n :
                     /\ eres'.buf[b] =
                          BitXor(sres'.buf[b], kstr[Len(encOut) + b])
                     /\ dres'.buf[b] =
                          BitXor(eres'.buf[b], kstr[Len(decOut) + b])]_vars

C15_Witness ==
  /\ dstat = "ok" /\ data = DataPlaintext
  /\ sres.ret.kind = "Err" /\ sres.ret.err = "EndOfFile"
  /\ eres.ret.kind = "Err" /\ Len(req) = 2
  /\ Len(encOut) = 3 /\ eraw = AfterBytes(3) /\ draw = eraw

\* C16: the keystream is independent of the data: estream and dstream are
\* two adapters built with the same key, over sources of different contents
\* (the data, and the masked data) answering the same counts; after every
\* read their generators (table, i, j) are equal, and equal to the state
\* fixed by the key and the number of bytes returned alone: that of a fresh
\* generator after a read of that many bytes.
C16_DataIndependence ==
  dstat = "ok" =>
    /\ Len(encOut) = Len(decOut)
    /\ eraw = draw
    /\ eraw = AfterBytes(Len(encOut))
    /\ draw = AfterBytes(Len(decOut))

C16_Witness ==
  /\ dstat = "ok" /\ data = DataAttack /\ Len(encOut) = 5
  /\ \A p \in 1..5 : encOut[p] # decOut[p]
  /\ eraw = draw /\ eraw.state # fresh.state

\* k2 is k written out one or more times.
IsRepetition(k2, k) ==
  /\ Len(k) > 0
  /\ \E m \in 1..Len(k2) :
       /\ Len(k2) = m * Len(k)
       /\ \A q \in 0..(m - 1) :
            SubSeq(k2, q * Len(k) + 1, (q + 1) * Len(k)) = k

\* The second raw stream is built, writes the keystream of key, and is in
\* the state a generator built from key is in after as many bytes; side by
\* side with the first, of two streams that wrote equally many bytes the
\* states are equal.
SecondAsFirst ==
  /\ gstat[1] \in {"none", "ok"}
  /\ gstat[2] \in {"none", "ok"}
  /\ (gstat[2] = "ok" /\ ks[2] = <<>>) => gen[2] = fresh
  /\ gstat[2] = "ok" =>
       /\ ks[2] = Keystream(Len(ks[2]))
       /\ gen[2] = AfterBytes(Len(ks[2]))
  /\ (gstat[1] = "ok" /\ gstat[2] = "ok" /\ Len(ks[1]) = Len(ks[2])) =>
       (gen[1] = gen[2] /\ ks[1] = ks[2])

\* C17: key periodicity: when key2 is the non-empty key written out once,
\* twice or any number of times, a generator built from key2 has the table
\* of a generator built from key after construction, and writes the same
\* keystream.
C17_KeyPeriodicity == IsRepetition(key2, key) => SecondAsFirst

C17_Witness ==
  /\ key = KeySecret /\ Len(key2) = 12 /\ IsRepetition(key2, key)
  /\ gstat[1] = "ok" /\ gstat[2] = "ok"
  /\ Len(ks[1]) = 8 /\ ks[2] = VecSecret

\* C18: long-key truncation: when key is longer than 256 bytes its
\* construction succeeds, and when key2 has the same first 256 bytes
\* (whatever follows them, if anything), a generator built from key2 has the
\* table of a generator built from key after construction, and writes the
\* same keystream.
C18_LongKeyTruncation ==
  Len(key) > 256 =>
    /\ gstat[1] \in {"none", "ok"}
    /\ (Len(key2) >= 256 /\ SubSeq(key2, 1, 256) = SubSeq(key, 1, 256)) =>
         SecondAsFirst

C18_Witness ==
  /\ Len(key) = 257 /\ Len(key2) = 258
  /\ SubSeq(key2, 1, 256) = SubSeq(key, 1, 256) /\ key2[257] # key[257]
  /\ gstat[1] = "ok" /\ gstat[2] = "ok"
  /\ Len(ks[1]) = 5 /\ Len(ks[2]) = 5 /\ gen[1].state # fresh.state

====
